---- MODULE Spec2Model ----
(***************************************************************************)
(* Bruker RAW (V3) decoder and dataset algebra of openxrd/databruker.py.   *)
(*                                                                         *)
(* BrukerData(filename) walks a byte buffer with one cursor: signature     *)
(* test, global header, range_cnt range records (range header, optional   *)
(* supplemental header chosen by a 4-byte tag, steps float samples), then  *)
(* either the 2D area map (get_smap) or a 1D scan.  The dataset algebra    *)
(* is __add__ (column-wise concatenation) and get_index_xy (nearest index).*)
(*                                                                         *)
(* Numbers.  File values are IEEE floats; the model computes with exact    *)
(* rationals <<numerator, denominator>> in lowest terms, denominator > 0,  *)
(* so that linspace, the tilt formula and the integer cast of the area map *)
(* are computed as the code computes them, without rounding error.         *)
(*                                                                         *)
(* Buffers.  A buffer is described by its first 8 bytes (sig), the         *)
(* range_cnt field of the global header, the range records laid out one    *)
(* after the other from byte 712, and its size in bytes.  The decoder      *)
(* works on byte offsets: it finds a record only at the offset the layout  *)
(* put it, and a read that crosses the end of the buffer fails.            *)
(***************************************************************************)
EXTENDS Integers, Sequences, FiniteSets, TLC

VARIABLES heap, file, last, hdrs

vars == <<heap, file, last, hdrs>>

-----------------------------------------------------------------------------
(* Bounds of the model.                                                    *)

\* ranges declared in one file
MaxRanges == 2
\* steps (samples) of one range
MaxSteps == 2
\* BrukerData objects alive in one run of the dataset algebra
MaxData == 3

\* header objects made in one run of the header algebra
MaxHdrs == 3

-----------------------------------------------------------------------------
(* Exact rational arithmetic standing for Python float arithmetic.         *)

Abs(n) == IF n < 0 THEN -n ELSE n

RECURSIVE GCD(_, _)
GCD(a, b) == IF b = 0 THEN a ELSE GCD(b, a % b)

Rat(n, d) ==
    LET g == GCD(Abs(n), Abs(d))
        s == IF d < 0 THEN -1 ELSE 1
    IN  <<(s * n) \div g, (s * d) \div g>>

RInt(k) == <<k, 1>>

RAdd(a, b) == Rat(a[1] * b[2] + b[1] * a[2], a[2] * b[2])

RSub(a, b) == Rat(a[1] * b[2] - b[1] * a[2], a[2] * b[2])

RMulInt(a, k) == Rat(a[1] * k, a[2])

RDivInt(a, k) == Rat(a[1], a[2] * k)

RLess(a, b) == a[1] * b[2] < b[1] * a[2]

RAbs(a) == <<Abs(a[1]), a[2]>>

\* C cast of a float to int64 (numpy's unsafe cast on assignment): the
\* fraction is dropped, rounding toward zero.
RTrunc(a) ==
    IF a[1] >= 0 THEN a[1] \div a[2] ELSE -((-a[1]) \div a[2])

-----------------------------------------------------------------------------
(* Layout constants of the record schemas.                                 *)

\* pos = 712: the first range record follows the 712-byte global header
FirstRangePos == 712

\* last field of BrukerHeader: 'hard_dep', 1 byte at offset 711
GlobalHeaderSize == 711 + 1

\* last field of BrukerRangeHeader: 'ig_x', '<I' at offset 280
RangeHeaderSize == 280 + 4

\* bytes the schema of a known supplemental record kind describes
\* (offset of its last field of fixed width plus that field's width)
SuppSchemaSize(typ) ==
    CASE typ = 200 -> 68 + 4
      [] typ = 190 -> 16 + 16
      [] typ = 150 -> 16 + 16
      [] typ = 140 -> 4 + 4
      [] typ = 130 -> 8 + 4
      [] typ = 120 -> 8 + 64
      [] typ = 110 -> 20 + 20
      [] typ = 100 -> 28 + 12
      [] OTHER -> 8

\* the classes BrukerSupp<typ> that globals() holds
SuppTags == {100, 110, 120, 130, 140, 150, 190, 200}

\* the schemas whose last field has the type '??', a field of variable
\* length, and the offset of that field in the schema
HasVarField(typ) == typ \in {130, 140}

VarOffset(typ) == IF typ = 140 THEN 8 ELSE 12

\* b"RAW1.01"
Magic == <<82, 65, 87, 49, 46, 48, 49>>

-----------------------------------------------------------------------------
(* Input buffers.                                                          *)

\* The value Python's None has in a field of the model.
None == -1

\* filecontent[0:8] of the inputs: "RAW1.01\0", "\0RAW1.01", "RAW1.00\0"
Sigs == { Magic \o <<0>>, <<0>> \o Magic, <<82, 65, 87, 49, 46, 48, 48, 0>> }

\* supplemental record of a range: 0 = none (sup_len = 0), 200 = area
\* detector, 190 = EVA offsets, 140 = comment, 999 = a tag no BrukerSupp
\* class exists for
SupKinds == {0, 140, 190, 200, 999}

\* bytes of the comment of the comment record of range k: a short comment
\* on the first range, a long one on the others
CommentLen(k) == IF k = 1 THEN 4 ELSE 2000

\* sup_len written for each kind; the area-detector record is followed by
\* padding its schema does not describe, the comment record holds its
\* comment after the fields of fixed width
SupLenOf(kind, k) ==
    CASE kind = 0 -> 0
      [] kind = 200 -> SuppSchemaSize(200) + 8
      [] kind = 140 -> SuppSchemaSize(140) + CommentLen(k)
      [] OTHER -> SuppSchemaSize(kind)

\* sample c of range k: whole counts (pat = 0) or counts with a fraction
SampleOf(pat, k, c) ==
    IF pat = 0 THEN RInt(10 * k + c) ELSE Rat(2 * (10 * k + c) + 1, 2)

\* one range record as the instrument writes it
MkRange(k, steps, kind, d, pat, m) ==
    [ header_len |-> 304,
      steps      |-> steps,
      start_2th  |-> RInt(10),
      step_size  |-> RInt(d),
      sup_len    |-> SupLenOf(kind, k),
      typ        |-> kind,
      length     |-> SupLenOf(kind, k),
      act_psi    |-> RInt(m * k),
      chi_start  |-> RInt(1),
      chi_end    |-> RInt(2),
      samples    |-> [c \in 1..steps |-> SampleOf(pat, k, c)] ]

\* bytes one range record occupies
RangeBytes(r) == r.header_len + r.sup_len + 4 * r.steps

RECURSIVE SumBytes(_, _)
SumBytes(rs, n) == IF n = 0 THEN 0 ELSE SumBytes(rs, n - 1) + RangeBytes(rs[n])

\* offset of range record k in the buffer
StartOf(f, k) == FirstRangePos + SumBytes(f.rngs, k - 1)

\* a buffer: cut bytes are missing at its end
MkFile(sig, rs, cut) ==
    [ sig       |-> sig,
      range_cnt |-> Len(rs),
      rngs      |-> rs,
      size      |-> FirstRangePos + SumBytes(rs, Len(rs)) - cut ]

\* the step counts of the ranges of one file
StepLists(minSteps) ==
    UNION { [1..n -> minSteps..MaxSteps] : n \in 0..MaxRanges }

\* the file whose range k has steps[k] steps: the first range carries a
\* supplemental record of kind kinds[1], the others of kind kinds[2]; all
\* ranges step by d, carry samples of pattern pat and are taken at
\* psi = m, 2m, ...
FileOf(sig, steps, kinds, d, pat, m, cut) ==
    MkFile(sig,
           [k \in 1..Len(steps) |->
               MkRange(k, steps[k], IF k = 1 THEN kinds[1] ELSE kinds[2],
                       d, pat, m)],
           cut)

\* complete area-detector files whose ranges all have n steps, the operands
\* of the dataset algebra
AreaFiles ==
    { FileOf(Magic \o <<0>>, [k \in 1..r |-> n], <<200, 200>>, 1, 0, m, 0) :
        r \in 1..MaxRanges, n \in 1..MaxSteps, m \in {-1, 0, 1} }

NoFile == MkFile(<<>>, <<>>, 0)

FileNames == { <<"a.raw">> }

-----------------------------------------------------------------------------
(* Decoding: BrukerData.__init__ and what it calls.                        *)

\* sub in s, for byte strings: s holds sub as a contiguous run
Contains(sub, s) ==
    \E i \in 0..(Len(s) - Len(sub)) : SubSeq(s, i + 1, i + Len(sub)) = sub

\* get_data_from_file: the test the buffer has to pass
SignatureOk(f) == Contains(Magic, f.sig)

\* struct.unpack taking whatever bytes the slice holds
CanReadShort(f, pos, bits) == TRUE

\* struct.unpack on filecontent[pos: pos + bits] succeeds only on a slice of
\* the full width
CanRead(f, pos, bits) == pos + bits <= f.size

\* the range record the instrument wrote at byte pos, 0 if none starts there
RecordAt(f, pos) ==
    IF \E k \in 1..Len(f.rngs) : StartOf(f, k) = pos
    THEN CHOOSE k \in 1..Len(f.rngs) : StartOf(f, k) = pos
    ELSE 0

\* get_metta(BrukerRangeHeader(), pos): the fields of the record at pos
RangeMetta(r) ==
    [ header_len |-> r.header_len,
      steps      |-> r.steps,
      start_2th  |-> r.start_2th,
      step_size  |-> r.step_size,
      sup_len    |-> r.sup_len ]

\* bits of a field of type '??' in the record decoded from start_pos on:
\* int(mettaclass['length'] - pos), pos being mettaclass.pos(key) + start_pos
VarBits(length, offset, start_pos) == length - (offset + start_pos)

\* _unpack of the field of variable length fails: str(bits) + 's' is no
\* format when bits < 0, and the slice must hold bits bytes
VarFieldFails(f, r, start_pos) ==
    LET bits == VarBits(r.length, VarOffset(r.typ), start_pos) IN
    bits < 0 \/ ~CanRead(f, VarOffset(r.typ) + start_pos, bits)

\* get_metta(BrukerSupp<typ>(), start_pos): the fields of the supplemental
\* record; a field of variable length is held as the number of its bytes
SuppMetta(r, start_pos) ==
    IF r.typ = 200
    THEN [ type      |-> r.typ,
           length    |-> r.length,
           act_psi   |-> r.act_psi,
           chi_start |-> r.chi_start,
           chi_end   |-> r.chi_end ]
    ELSE IF HasVarField(r.typ)
    THEN [ type      |-> r.typ,
           length    |-> r.length,
           var_bytes |-> VarBits(r.length, VarOffset(r.typ), start_pos) ]
    ELSE [ type |-> r.typ, length |-> r.length ]

\* globals()["BrukerSupp" + str(typ)] with a default class for unknown tags
SuppClassAny(typ) == TRUE

\* globals()["BrukerSupp" + str(typ)] finds a class
SuppClassExists(typ) == typ \in SuppTags

\* CountsData with the loop one pass short: range(data_len - 1)
CountsDataShort(r, data_len) == [c \in 1..(data_len - 1) |-> r.samples[c]]

\* the samples get_range reads from byte pos on: counts_data
CountsData(r, data_len) == [c \in 1..data_len |-> r.samples[c]]

\* the range record whose samples start at byte pos, 0 if there is none
DataRecordAt(f, pos) ==
    LET at(k) == StartOf(f, k) + f.rngs[k].header_len + f.rngs[k].sup_len IN
    IF \E k \in 1..Len(f.rngs) : at(k) = pos
    THEN CHOOSE k \in 1..Len(f.rngs) : at(k) = pos
    ELSE 0

\* the steps floats unpacked from byte pos on: the samples of the record
\* whose samples start there, and bytes that are no samples anywhere else
SamplesFrom(f, pos, data_len) ==
    IF DataRecordAt(f, pos) = 0
    THEN [c \in 1..data_len |-> RInt(-1)]
    ELSE CountsData(f.rngs[DataRecordAt(f, pos)], data_len)

\* the cursor after a range whose supplemental record is not skipped
PosAfterNoSupp(pos, metta) == pos + metta.header_len + 4 * metta.steps

\* the cursor get_range returns
PosAfter(pos, metta) == pos + metta.header_len + metta.sup_len + 4 * metta.steps

Failed(err, pos) == [ok |-> FALSE, err |-> err, rng |-> <<>>, pos |-> pos]

\* get_range(pos): the range at the cursor and the cursor after it
get_range(f, pos) ==
    LET k == RecordAt(f, pos) IN
    IF ~CanRead(f, pos, RangeHeaderSize) \/ k = 0
    THEN Failed("struct.error", pos)
    ELSE
    LET r     == f.rngs[k]
        metta == RangeMetta(r)
        spos  == pos + metta.header_len
        dpos  == spos + metta.sup_len
    IN  IF metta.sup_len > 0 /\ ~CanRead(f, spos, 4)
        THEN Failed("struct.error", pos)
        ELSE IF metta.sup_len > 0 /\ ~SuppClassExists(r.typ)
        THEN Failed("KeyError", pos)
        ELSE IF metta.sup_len > 0 /\ ~CanRead(f, spos, SuppSchemaSize(r.typ))
        THEN Failed("struct.error", pos)
        ELSE IF metta.sup_len > 0 /\ HasVarField(r.typ)
                /\ VarFieldFails(f, r, spos)
        THEN Failed("struct.error", pos)
        ELSE IF metta.steps > 0 /\ ~CanRead(f, dpos, 4 * metta.steps)
        THEN Failed("struct.error", pos)
        ELSE [ ok  |-> TRUE,
               err |-> "",
               rng |-> [ metta       |-> metta,
                         supmetta    |-> IF metta.sup_len > 0
                                         THEN SuppMetta(r, spos)
                                         ELSE [type |-> None],
                         counts_data |-> SamplesFrom(f, dpos, metta.steps) ],
               pos |-> PosAfter(pos, metta) ]

\* RangeCntAfter without the else branch: header['range_cnt'] is left alone
RangeCntKept(cnt, steps) == cnt

\* header['range_cnt'] after a pass of the loop that read a range of steps
RangeCntAfter(cnt, steps) == IF steps > 0 THEN cnt ELSE cnt - 1

\* the loop of __init__ from its i-th pass on: rngs are the ranges kept so
\* far, cnt is header['range_cnt'], calls counts the calls of get_range
RECURSIVE ReadRanges(_, _, _, _, _, _)
ReadRanges(f, i, pos, rngs, cnt, calls) ==
    IF i > f.range_cnt
    THEN [ok |-> TRUE, err |-> "", rngs |-> rngs, cnt |-> cnt, calls |-> calls]
    ELSE LET g == get_range(f, pos) IN
         IF ~g.ok
         THEN [ok |-> FALSE, err |-> g.err, rngs |-> rngs, cnt |-> cnt,
               calls |-> calls + 1]
         ELSE ReadRanges(f, i + 1, g.pos,
                         IF g.rng.metta.steps > 0 THEN Append(rngs, g.rng)
                                                  ELSE rngs,
                         RangeCntAfter(cnt, g.rng.metta.steps), calls + 1)

-----------------------------------------------------------------------------
(* Axes and the area map.                                                  *)

\* np.linspace(start, stop, num), num >= 1: num points, both ends included
Linspace(start, stop, num) ==
    IF num = 1
    THEN <<start>>
    ELSE [i \in 1..num |->
            RAdd(start, RDivInt(RMulInt(RSub(stop, start), i - 1), num - 1))]

\* twoth_e = twoth_0 + twoth_s * steps; np.linspace(twoth_0, twoth_e, len)
TwoThetaAxis(metta, len) ==
    Linspace(metta.start_2th,
             RAdd(metta.start_2th, RMulInt(metta.step_size, metta.steps)),
             len)

\* 90 - phi + (90 + chi_s - (chi_s - chi_e) / 2)
Tilt(sup) ==
    RAdd(RSub(RInt(90), sup.act_psi),
         RSub(RAdd(RInt(90), sup.chi_start),
              RDivInt(RSub(sup.chi_start, sup.chi_end), 2)))

RMin(vals) == CHOOSE v \in vals : \A w \in vals : ~RLess(w, v)

RMax(vals) == CHOOSE v \in vals : \A w \in vals : ~RLess(v, w)

Range(seq) == { seq[i] : i \in 1..Len(seq) }

MaxOf(nums) == CHOOSE n \in nums : \A m \in nums : m <= n

\* lens = np.array([len(item) for item in smap])
Lens(rngs) == [r \in 1..Len(rngs) |-> Len(rngs[r].counts_data)]

\* np.argmax(lens): the first position of the largest entry
ArgMax(lens) ==
    CHOOSE r \in 1..Len(lens) :
        /\ lens[r] = MaxOf(Range(lens))
        /\ \A q \in 1..(r - 1) : lens[q] < lens[r]

\* out = np.full(mask.shape, 0) is an array of integers; out[mask] = ...
\* stores each sample cast to an integer
StoreSample(v) == RInt(RTrunc(v))

\* PadRow padding with the last sample of the row instead of 0
PadRowRepeat(counts_data, width) ==
    [c \in 1..width |->
        IF c <= Len(counts_data) THEN StoreSample(counts_data[c])
        ELSE StoreSample(counts_data[Len(counts_data)])]

\* row r of out: the samples left-aligned, 0 where the mask is False
PadRow(counts_data, width) ==
    [c \in 1..width |->
        IF c <= Len(counts_data) THEN StoreSample(counts_data[c]) ELSE RInt(0)]

\* get_smap: x, y and smap of an area map whose ranges all carry a
\* supplemental record of type 200
get_smap(rngs) ==
    LET y      == [r \in 1..Len(rngs) |-> Tilt(rngs[r].supmetta)]
        lens   == Lens(rngs)
        width  == MaxOf(Range(lens))
        userng == ArgMax(lens)
    IN  [ x    |-> TwoThetaAxis(rngs[userng].metta, width),
          y    |-> Linspace(RMin(Range(y)), RMax(Range(y)), Len(rngs)),
          smap |-> [r \in 1..Len(rngs) |-> PadRow(rngs[r].counts_data, width)] ]

\* self.smap = None of a 1D dataset; header = None of BrukerData()
NoSmap == <<>>

NoHeader == <<>>

\* the 1D branch of __init__
Scan1D(rngs) ==
    [ x    |-> TwoThetaAxis(rngs[1].metta, Len(rngs[1].counts_data)),
      y    |-> rngs[1].counts_data,
      smap |-> NoSmap ]

\* get_smap on a range without the area-detector record: the dict
\* {'type': None} has no key 'act_psi'; another BrukerSupp class answers
\* None for it and 90 - None fails
SmapError(rngs) ==
    LET r == CHOOSE q \in 1..Len(rngs) :
                 /\ rngs[q].supmetta.type # 200
                 /\ \A p \in 1..(q - 1) : rngs[p].supmetta.type = 200
    IN  IF rngs[r].supmetta.type = None THEN "KeyError" ELSE "TypeError"

\* what BrukerData(filename) raises or constructs
Raised(err, hdr, calls) ==
    [status |-> "error", err |-> err, hdr |-> hdr, calls |-> calls, ds |-> <<>>]

BrukerData(filename, f) ==
    IF ~SignatureOk(f)
    THEN Raised("Exception: invalid file type", FALSE, 0)
    ELSE IF ~CanRead(f, 0, GlobalHeaderSize)
    THEN Raised("struct.error", FALSE, 0)
    ELSE
    LET l == ReadRanges(f, 1, FirstRangePos, <<>>, f.range_cnt, 0) IN
    IF ~l.ok
    THEN Raised(l.err, TRUE, l.calls)
    ELSE IF l.rngs = <<>>
    THEN Raised("IndexError", TRUE, l.calls)
    ELSE IF l.rngs[1].supmetta.type = 200
              /\ \E r \in 1..Len(l.rngs) : l.rngs[r].supmetta.type # 200
    THEN Raised(SmapError(l.rngs), TRUE, l.calls)
    ELSE
    LET axes == IF l.rngs[1].supmetta.type = 200
                THEN get_smap(l.rngs) ELSE Scan1D(l.rngs)
    IN  [ status |-> "ok", err |-> "", hdr |-> TRUE, calls |-> l.calls,
          ds |-> << [ filename |-> filename,
                      header   |-> <<[range_cnt |-> l.cnt]>>,
                      rngs     |-> l.rngs,
                      x        |-> axes.x,
                      y        |-> axes.y,
                      smap     |-> axes.smap ] >> ]

-----------------------------------------------------------------------------
(* Dataset algebra: __add__ and get_index_xy.                              *)

\* ArrayEqual comparing the shapes only
ArrayEqualShape(a, b) == Len(a) = Len(b)

\* np.array_equal(self.y, other.y): same shape and equal element by element
ArrayEqual(a, b) == Len(a) = Len(b) /\ \A i \in 1..Len(a) : a[i] = b[i]

\* ConcatColumns along the wrong axis: np.concatenate(..., axis=0)
ConcatRows(m1, m2) == m1 \o m2

\* np.concatenate((self.smap, other.smap), axis=1)
ConcatColumns(m1, m2) == [r \in 1..Len(m1) |-> m1[r] \o m2[r]]

\* the BrukerData that __add__ fills and returns
Combined(self, other) ==
    [ filename |-> self.filename \o <<" & ">> \o other.filename,
      header   |-> NoHeader,
      rngs     |-> self.rngs \o other.rngs,
      x        |-> self.x \o other.x,
      y        |-> self.y,
      smap     |-> ConcatColumns(self.smap, other.smap) ]

\* the error __add__ raises for these operands, "" if none
AddError(self, other) ==
    IF ~ArrayEqual(self.y, other.y)
    THEN "Exception: Type mismatch, must be BrukerData"
    ELSE IF self.smap = NoSmap \/ other.smap = NoSmap
              \/ Len(self.smap) # Len(other.smap)
    THEN "ValueError"
    ELSE ""

\* HeapAfterAdd extending self in place and returning it as well
HeapAfterAddInPlace(h, a, b) ==
    Append([h EXCEPT ![a] = Combined(h[a], h[b])], Combined(h[a], h[b]))

\* the objects after self + other, self = h[a] and other = h[b]: ret is a
\* new object, self and other stay as they are
HeapAfterAdd(h, a, b) == Append(h, Combined(h[a], h[b]))

\* ArgMinAbs answering the last position of the nearest entry
ArgMinAbsLast(axis, v) ==
    CHOOSE i \in 1..Len(axis) :
        /\ \A j \in 1..Len(axis) :
               ~RLess(RAbs(RSub(axis[j], v)), RAbs(RSub(axis[i], v)))
        /\ \A j \in (i + 1)..Len(axis) :
               RLess(RAbs(RSub(axis[i], v)), RAbs(RSub(axis[j], v)))

\* np.abs(axis - v).argmin(): the first position (from 1) of the entry
\* nearest to v
ArgMinAbs(axis, v) ==
    CHOOSE i \in 1..Len(axis) :
        /\ \A j \in 1..Len(axis) :
               ~RLess(RAbs(RSub(axis[j], v)), RAbs(RSub(axis[i], v)))
        /\ \A j \in 1..(i - 1) :
               RLess(RAbs(RSub(axis[i], v)), RAbs(RSub(axis[j], v)))

\* one axis of get_index_xy; the index returned counts from 0
IndexOn(axis, v) ==
    IF Len(axis) = 1 /\ RLess(axis[1], v) THEN 1 ELSE ArgMinAbs(axis, v) - 1

\* get_index_xy(x, y) = (x_out, y_out)
get_index_xy(ds, x, y) == <<IndexOn(ds.x, x), IndexOn(ds.y, y)>>

-----------------------------------------------------------------------------
(* State: heap holds the BrukerData objects constructed so far, an object  *)
(* being its position in heap; file is the buffer last handed to the       *)
(* decoder; last records the last call and what it returned or raised.     *)

Call(op, status, err, hdr, calls, a, b, qx, qy, ret) ==
    [ op |-> op, status |-> status, err |-> err, hdr |-> hdr, calls |-> calls,
      a |-> a, b |-> b, qx |-> qx, qy |-> qy, ret |-> ret ]

\* no header object made outside a decode
NoHdrs == [obj |-> <<>>, dict |-> <<>>, cell |-> <<>>]

Init ==
    /\ heap = <<>>
    /\ file = NoFile
    /\ hdrs = NoHdrs
    /\ last = Call("init", "ok", "", FALSE, 0, 0, 0, RInt(0), RInt(0), <<>>)

\* d = BrukerData(filename)
Decode(filename, f) ==
    \E res \in {BrukerData(filename, f)} :
    /\ heap' = heap \o res.ds
    /\ file' = f
    /\ last' = Call("decode", res.status, res.err, res.hdr, res.calls,
                    0, 0, RInt(0), RInt(0),
                    IF res.status = "ok" THEN <<Len(heap) + 1>> ELSE <<>>)

\* heap[a] + heap[b]
Add(a, b) ==
    LET err == AddError(heap[a], heap[b]) IN
    /\ heap' = IF err = "" THEN HeapAfterAdd(heap, a, b) ELSE heap
    /\ last' = Call("add", IF err = "" THEN "ok" ELSE "error", err, FALSE, 0,
                    a, b, RInt(0), RInt(0),
                    IF err = "" THEN <<Len(heap) + 1>> ELSE <<>>)
    /\ UNCHANGED file

\* the coordinates asked for: the stored ones and one beyond the largest
Queries(axis) == Range(axis) \cup { RAdd(RMax(Range(axis)), RInt(1)) }

\* heap[k].get_index_xy(x, y)
Lookup(k, x, y) ==
    /\ last' = Call("get_index_xy", "ok", "", FALSE, 0, k, 0, x, y,
                    get_index_xy(heap[k], x, y))
    /\ UNCHANGED <<heap, file>>

\* bytes missing at the end of the file: none, the last one, or more than
\* a range header and a sample
Cuts == {0, 1, 310}

\* decoding one file: a run is one call of the constructor
DecodeFile ==
    /\ last.op = "init"
    /\ \E n \in FileNames, sig \in Sigs, steps \in StepLists(0),
          kinds \in SupKinds \X SupKinds, d \in {0, 1}, pat \in {0, 1},
          m \in {-1, 1}, cut \in Cuts :
            Decode(n, FileOf(sig, steps, kinds, d, pat, m, cut))
    /\ UNCHANGED hdrs

Next == DecodeFile

Spec == Init /\ [][Next]_vars

\* The dataset algebra starts from one or two decoded area maps.  A query
\* changes no object, so every query is made as the last call of a run and
\* on the object made last; every object is the last one made of some run.
DataOf(f) == BrukerData(CHOOSE n \in FileNames : TRUE, f).ds

InitAlg ==
    /\ \E fa \in AreaFiles :
         \/ heap = DataOf(fa) /\ file = fa
         \/ \E fb \in AreaFiles : heap = DataOf(fa) \o DataOf(fb) /\ file = fb
    /\ last = Call("decode", "ok", "", TRUE, file.range_cnt, 0, 0,
                   RInt(0), RInt(0), <<Len(heap)>>)
    /\ hdrs = NoHdrs

Concatenate ==
    /\ last.op # "get_index_xy"
    /\ \E a \in 1..Len(heap), b \in 1..Len(heap) :
        /\ Len(heap) < MaxData
        /\ Add(a, b)
    /\ UNCHANGED hdrs

Query ==
    /\ last.op # "get_index_xy"
    /\ \E x \in Queries(heap[Len(heap)].x), y \in Queries(heap[Len(heap)].y) :
          Lookup(Len(heap), x, y)
    /\ UNCHANGED hdrs

NextAlg == Concatenate \/ Query

SpecAlg == InitAlg /\ [][NextAlg]_vars

-----------------------------------------------------------------------------
(* Properties of the decoder, checked under Spec.                          *)

\* the constructor returned a dataset, which is heap[1]
DecodedOk == last.op = "decode" /\ last.status = "ok"

\* the ranges of the file the decoder keeps, in file order
Retained(f) == SelectSeq(f.rngs, LAMBDA r : r.steps > 0)

\* the largest step count among the ranges of a dataset
MaxStepsOf(rngs) == MaxOf({ rngs[q].metta.steps : q \in 1..Len(rngs) })

\* C1: a file with the signature RAW1.01 and one range without
\* area-detector record, with n >= 1 steps, start s and step size d, decodes
\* to x[i] = s + i*d for i = 0..n-1 and to y = the n samples of the file in
\* order.
C1_LinearAxis ==
    (DecodedOk /\ SubSeq(file.sig, 1, Len(Magic)) = Magic
               /\ file.range_cnt = 1 /\ file.rngs[1].typ # 200
               /\ file.rngs[1].steps >= 1)
    => LET r == file.rngs[1] IN
       /\ Len(heap[1].x) = r.steps
       /\ \A i \in 1..r.steps :
              heap[1].x[i] = RAdd(r.start_2th, RMulInt(r.step_size, i - 1))
       /\ heap[1].y = r.samples

\* C2: a buffer whose first 8 bytes are not the signature RAW1.01 (the
\* seven characters from byte 0) is refused with the invalid-file error
\* before the global header or any range is decoded, and no dataset exists.
C2_BadSignatureRejected ==
    (last.op = "decode" /\ SubSeq(file.sig, 1, Len(Magic)) # Magic)
    => /\ last.status = "error"
       /\ last.err = "Exception: invalid file type"
       /\ ~last.hdr
       /\ last.calls = 0
       /\ heap = <<>>

\* C3: a decoded 1D dataset has len(x) = len(y) = steps, the step count in
\* the header of the first range the decoder kept.
C3_ScanLengths ==
    (DecodedOk /\ heap[1].smap = NoSmap)
    => /\ heap[1].rngs[1].metta.steps = Retained(file)[1].steps
       /\ Len(heap[1].x) = heap[1].rngs[1].metta.steps
       /\ Len(heap[1].y) = heap[1].rngs[1].metta.steps

C3_Witness ==
    /\ DecodedOk
    /\ heap[1].smap = NoSmap
    /\ Len(heap[1].y) >= 2
    /\ file.rngs[1].steps = 0

\* C4: a decoded area map has one row per retained range and max(steps)
\* columns, and row r is 0 from column steps(r) on.
C4_PaddedMap ==
    (DecodedOk /\ heap[1].smap # NoSmap)
    => LET d == heap[1] IN
       /\ Len(d.rngs) = Len(Retained(file))
       /\ Len(d.smap) = Len(d.rngs)
       /\ \A r \in 1..Len(d.smap) :
            /\ Len(d.smap[r]) = MaxStepsOf(d.rngs)
            /\ \A c \in 1..Len(d.smap[r]) :
                   c > d.rngs[r].metta.steps => d.smap[r][c] = RInt(0)

C4_Witness ==
    /\ DecodedOk
    /\ heap[1].smap # NoSmap
    /\ \E r \in 1..Len(heap[1].rngs) :
           heap[1].rngs[r].metta.steps < Len(heap[1].smap[r])

\* C5: in a decoded area map every sample is in its row unchanged:
\* smap[r][c] = counts_data[c] of retained range r for c < steps(r),
\* whatever the sample value.
C5_SamplesVerbatim ==
    (DecodedOk /\ heap[1].smap # NoSmap)
    => \A r \in 1..Len(heap[1].rngs) :
           \A c \in 1..heap[1].rngs[r].metta.steps :
               heap[1].smap[r][c] = heap[1].rngs[r].counts_data[c]

-----------------------------------------------------------------------------
(* Properties of the dataset algebra, checked under SpecAlg.               *)

\* C6: A + B succeeds exactly when the tilt axes are equal element by
\* element; the result has x = A.x then B.x, smap = the rows of A.smap
\* each followed by the row of B.smap, y = A.y and rngs = A.rngs then
\* B.rngs.
C6_Concatenation ==
    last.op = "add"
    => LET A == heap[last.a]
           B == heap[last.b]
       IN  /\ last.status = "ok" <=>
                 (Len(A.y) = Len(B.y) /\ \A i \in 1..Len(A.y) : A.y[i] = B.y[i])
           /\ last.status = "error" => last.ret = <<>>
           /\ last.status = "ok" =>
                LET R == heap[last.ret[1]] IN
                /\ R.x = A.x \o B.x
                /\ Len(R.x) = Len(A.x) + Len(B.x)
                /\ Len(R.smap) = Len(A.smap)
                /\ \A r \in 1..Len(R.smap) :
                       /\ R.smap[r] = A.smap[r] \o B.smap[r]
                       /\ Len(R.smap[r]) = Len(A.smap[r]) + Len(B.smap[r])
                /\ R.y = A.y
                /\ R.rngs = A.rngs \o B.rngs

C6_Witness ==
    /\ last.op = "add"
    /\ last.status = "ok"
    /\ heap[last.a].x # heap[last.b].x

\* C7: A + B leaves A and B as they were, whether it succeeds or fails,
\* and what it returns on success is a new object, neither A nor B.
C7_OperandsUntouched ==
    [][ last'.op = "add"
        => /\ Len(heap') >= Len(heap)
           /\ \A k \in 1..Len(heap) : heap'[k] = heap[k]
           /\ last'.status = "error" => heap' = heap
           /\ last'.status = "ok" =>
                /\ Len(heap') = Len(heap) + 1
                /\ last'.ret = <<Len(heap')>>
                /\ last'.ret[1] \notin {last'.a, last'.b} ]_vars

C7_Witness ==
    /\ last.op = "add"
    /\ last.status = "ok"
    /\ last.a = last.b

\* C8 as stated: every area map, decoded or concatenated, has
\* rows = len(y) and cols = len(x) = max(steps over its ranges).
C8_ShapeMaxSteps ==
    \A k \in 1..Len(heap) :
        LET d == heap[k] IN
        /\ Len(d.smap) = Len(d.y)
        /\ \A r \in 1..Len(d.smap) : Len(d.smap[r]) = Len(d.x)
        /\ Len(d.x) = MaxStepsOf(d.rngs)

\* C8 amended: every area map, decoded or concatenated, has
\* rows = len(y) and cols = len(x); cols = max(steps over its ranges)
\* holds for the decoded ones.
C8_Shape ==
    \A k \in 1..Len(heap) :
        LET d == heap[k] IN
        /\ Len(d.smap) = Len(d.y)
        /\ \A r \in 1..Len(d.smap) : Len(d.smap[r]) = Len(d.x)
        /\ d.header # NoHeader => Len(d.x) = MaxStepsOf(d.rngs)

C8_Witness ==
    \E k \in 1..Len(heap) :
        /\ heap[k].header = NoHeader
        /\ Len(heap[k].x) > MaxStepsOf(heap[k].rngs)
        /\ Len(heap[k].smap) >= 2

\* the call asked for the values stored at indices i and j (from 1)
AsksStored(i, j) ==
    /\ last.op = "get_index_xy"
    /\ i \in 1..Len(heap[last.a].x)
    /\ j \in 1..Len(heap[last.a].y)
    /\ last.qx = heap[last.a].x[i]
    /\ last.qy = heap[last.a].y[j]

\* C9 as stated: get_index_xy(x[i], y[j]) = (i, j) for all valid i, j.
C9_LookupIdentity ==
    last.op = "get_index_xy"
    => \A i \in 1..Len(heap[last.a].x), j \in 1..Len(heap[last.a].y) :
           AsksStored(i, j) => last.ret = <<i - 1, j - 1>>

\* C9 amended: get_index_xy(x[i], y[j]) = (i', j'), the first indices
\* holding the values x[i] and y[j]; so it is (i, j) when no earlier entry
\* of either axis holds the same value.
C9_LookupFirst ==
    last.op = "get_index_xy"
    => LET d == heap[last.a] IN
       \A i \in 1..Len(d.x), j \in 1..Len(d.y) :
           AsksStored(i, j)
           => /\ d.x[last.ret[1] + 1] = d.x[i]
              /\ d.y[last.ret[2] + 1] = d.y[j]
              /\ \A p \in 1..last.ret[1] : d.x[p] # d.x[i]
              /\ \A q \in 1..last.ret[2] : d.y[q] # d.y[j]
              /\ ((\A p \in 1..(i - 1) : d.x[p] # d.x[i])
                     /\ (\A q \in 1..(j - 1) : d.y[q] # d.y[j]))
                 => last.ret = <<i - 1, j - 1>>

C9_Witness ==
    /\ last.op = "get_index_xy"
    /\ \E i \in 1..Len(heap[last.a].x), j \in 1..Len(heap[last.a].y) :
          /\ AsksStored(i, j)
          /\ last.ret[1] < i - 1
          /\ last.ret[2] < j - 1

\* C10: get_index_xy returns indices inside both axes, for any query.
C10_IndexInBounds ==
    last.op = "get_index_xy"
    => /\ 0 <= last.ret[1] /\ last.ret[1] < Len(heap[last.a].x)
       /\ 0 <= last.ret[2] /\ last.ret[2] < Len(heap[last.a].y)

-----------------------------------------------------------------------------
(* integrate_2d: sums of a box of the area map along one axis.  An area is *)
(* the token 'all' or a tuple of indices; Area(all, box) holds which.      *)

Area(all, box) == [all |-> all, box |-> box]

\* a[lo:hi] on an axis of n entries: the 1-based positions the slice keeps
SliceStart(i, n) == IF i < 0 THEN (IF i + n < 0 THEN 0 ELSE i + n)
                    ELSE IF i > n THEN n ELSE i

Slice(lo, hi, n) ==
    LET s == SliceStart(lo, n)
        e == SliceStart(hi, n)
    IN  [i \in 1..(IF e > s THEN e - s ELSE 0) |-> s + i]

RECURSIVE SumOver(_, _)
SumOver(vals, n) == IF n = 0 THEN RInt(0) ELSE RAdd(SumOver(vals, n - 1), vals[n])

\* axis == 'x' sums along numpy axis 0, axis == 'y' along numpy axis 1
AxisOfSwapped(axis) == IF axis = "x" THEN 1 ELSE 0

AxisOf(axis) == IF axis = "x" THEN 0 ELSE 1

\* any selector but 'x' and 'y' is refused
AxisAny(axis) == TRUE

AxisKnown(axis) == axis \in {"x", "y"}

\* np.sum(box, axis): axis 0 sums each column over the rows of the box,
\* axis 1 each row over its columns
NpSum(smap, rows, cols, axis) ==
    IF axis = 0
    THEN [c \in 1..Len(cols) |->
             SumOver([r \in 1..Len(rows) |-> smap[rows[r]][cols[c]]], Len(rows))]
    ELSE [r \in 1..Len(rows) |->
             SumOver([c \in 1..Len(cols) |-> smap[rows[r]][cols[c]]], Len(cols))]

IntegrateError(ds, area, axis) ==
    IF area.all /\ ds.smap = NoSmap
        THEN "AttributeError: 'NoneType' object has no attribute 'shape'"
    ELSE IF ~area.all /\ Len(area.box) # 4
        THEN "Exception: area must be all or (x1, y1, x2, y2)"
    ELSE IF ~AxisKnown(axis) THEN "Exception: axis must be x or y"
    ELSE IF ds.smap = NoSmap
        THEN "TypeError: 'NoneType' object is not subscriptable"
    ELSE ""

\* line = integrate_2d(area, axis)
integrate_2d(ds, area, axis) ==
    LET err == IntegrateError(ds, area, axis)
        R   == Len(ds.smap)
        C   == Len(ds.smap[1])
        x1  == IF area.all THEN 0 ELSE area.box[1]
        y1  == IF area.all THEN 0 ELSE area.box[2]
        x2  == IF area.all THEN C ELSE area.box[3]
        y2  == IF area.all THEN R ELSE area.box[4]
    IN  IF err # "" THEN [status |-> "error", err |-> err, ret |-> <<>>]
        ELSE [status |-> "ok", err |-> "",
              ret |-> NpSum(ds.smap, Slice(y1, y2, R), Slice(x1, x2, C),
                            AxisOf(axis))]

\* heap[k].integrate_2d(area, axis)
Integrate2d(k, area, axis) ==
    \E res \in {integrate_2d(heap[k], area, axis)} :
    /\ last' = [ op |-> "integrate_2d", status |-> res.status, err |-> res.err,
                 hdr |-> FALSE, calls |-> 0, a |-> k, b |-> 0,
                 qx |-> RInt(0), qy |-> RInt(0), ret |-> res.ret,
                 area |-> area, axis |-> axis ]
    /\ UNCHANGED <<heap, file>>

\* the areas asked for: the whole map, boxes inside it, one reaching past its
\* edges, one counted from the end, and tuples that are no box
Areas(ds) ==
    { Area(TRUE, <<>>) }
    \cup { Area(FALSE, <<x1, y1, x2, y2>>) :
             x1 \in {0, 1}, y1 \in {0, 1}, x2 \in {1, 2}, y2 \in {1, 2} }
    \cup { Area(FALSE, b) : b \in { <<0, 0, 9, 9>>, <<-1, -1, 9, 9>>, <<>>,
                                    <<0, 0, 1>>, <<0, 0, 1, 1, 1>> } }

Axes == {"x", "y", "z"}

\* Integration starts from one decoded area map, alone or next to its
\* concatenation with itself, and is asked any number of times.
InitInt ==
    /\ \E fa \in AreaFiles :
         /\ file = fa
         /\ \/ heap = DataOf(fa)
            \/ heap = HeapAfterAdd(DataOf(fa), 1, 1)
    /\ last = Call("decode", "ok", "", TRUE, file.range_cnt, 0, 0,
                   RInt(0), RInt(0), <<1>>)
    /\ hdrs = NoHdrs

Integrate ==
    /\ \E k \in 1..Len(heap) :
          \E area \in Areas(heap[k]), axis \in Axes : Integrate2d(k, area, axis)
    /\ UNCHANGED hdrs

NextInt == Integrate

SpecInt == InitInt /\ [][NextInt]_vars

\* the sum of column c, and of row r, of a matrix, entry by entry
RECURSIVE ColumnSum(_, _, _)
ColumnSum(smap, c, r) ==
    IF r = 0 THEN RInt(0) ELSE RAdd(smap[r][c], ColumnSum(smap, c, r - 1))

RECURSIVE RowSum(_, _, _)
RowSum(smap, r, c) ==
    IF c = 0 THEN RInt(0) ELSE RAdd(smap[r][c], RowSum(smap, r, c - 1))

\* C11: on a dataset whose map has R rows and C columns, integrating the
\* whole map along 'x' returns C values, the sums of the columns, and along
\* 'y' returns R values, the sums of the rows.
C11_IntegrateAll ==
    (last.op = "integrate_2d" /\ last.area.all /\ last.axis \in {"x", "y"})
    => LET smap == heap[last.a].smap
           R    == Len(smap)
           C    == Len(smap[1])
       IN  /\ last.status = "ok"
           /\ last.axis = "x" =>
                /\ Len(last.ret) = C
                /\ \A c \in 1..C : last.ret[c] = ColumnSum(smap, c, R)
           /\ last.axis = "y" =>
                /\ Len(last.ret) = R
                /\ \A r \in 1..R : last.ret[r] = RowSum(smap, r, C)

\* the whole of a map with more columns than rows, not all entries equal,
\* is integrated along 'x' after it was integrated along 'y'
C11_Witness ==
    /\ last.op = "integrate_2d" /\ last.area.all /\ last.axis = "x"
    /\ last.status = "ok"
    /\ Len(heap[last.a].smap) >= 2
    /\ Len(last.ret) > Len(heap[last.a].smap)
    /\ \E c \in 1..Len(last.ret) : last.ret[c] # last.ret[1]


\* the requests integrate_2d accepts: the whole map or a tuple of four
\* indices, along 'x' or 'y'
ValidRequest(area, axis) ==
    (area.all \/ Len(area.box) = 4) /\ axis \in {"x", "y"}

\* C12: integrate_2d fails with an error when the area is not 'all' and has
\* not exactly four components, and when the axis is neither 'x' nor 'y';
\* the failed call changes nothing of any dataset, and a valid request made
\* after it returns what the same request returned before it.
C12_InvalidRequestRefused ==
    [][ last'.op = "integrate_2d" =>
          /\ ~ValidRequest(last'.area, last'.axis) =>
                /\ last'.status = "error"
                /\ last'.ret = <<>>
                /\ heap' = heap
          /\ (/\ last.op = "integrate_2d" /\ last.status = "error"
              /\ last'.status = "ok")
             => last'.ret = integrate_2d(heap[last'.a], last'.area,
                                         last'.axis).ret
      ]_vars

\* a request for the whole map of a concatenated dataset along an axis that
\* does not exist has been refused
C12_Witness ==
    /\ last.op = "integrate_2d" /\ last.status = "error"
    /\ last.area.all /\ last.axis = "z"
    /\ Len(heap) = 2


\* the number of declared ranges of a file that hold no samples
EmptyRanges(f) == Cardinality({ k \in 1..Len(f.rngs) : f.rngs[k].steps = 0 })

\* C13: a successful decode called the range parser once for each range the
\* file declares; the ranges without samples are left out and each lowers
\* header['range_cnt'] by one, the others are kept in file order; at the end
\* header['range_cnt'] is the number of kept ranges, each with steps > 0.
C13_RangesKept ==
    DecodedOk
    => LET d == heap[1] IN
       /\ last.calls = file.range_cnt
       /\ d.header[1].range_cnt = file.range_cnt - EmptyRanges(file)
       /\ d.header[1].range_cnt = Len(d.rngs)
       /\ Len(d.rngs) = Len(Retained(file))
       /\ \A i \in 1..Len(d.rngs) :
             /\ d.rngs[i].metta.steps > 0
             /\ d.rngs[i].metta = RangeMetta(Retained(file)[i])
             /\ d.rngs[i].counts_data = Retained(file)[i].samples

\* a file declaring two ranges, the first without samples, was decoded
C13_Witness ==
    /\ DecodedOk
    /\ file.range_cnt = 2
    /\ file.rngs[1].steps = 0
    /\ last.calls = 2
    /\ Len(heap[1].rngs) = 1
    /\ heap[1].header[1].range_cnt = 1


\* the fields of the schema of a tag that the model keeps
SchemaFields(typ) ==
    IF typ = 200 THEN {"type", "length", "act_psi", "chi_start", "chi_end"}
    ELSE IF HasVarField(typ) THEN {"type", "length", "var_bytes"}
    ELSE {"type", "length"}

\* C14: a file holding a range with sup_len > 0 and a tag outside
\* {100, 110, 120, 130, 140, 150, 190, 200} is not decoded: the decode fails
\* and there is no dataset.  In a decoded file every range with sup_len > 0
\* carries the record of the schema of its own tag, and every range with
\* sup_len = 0 carries no record, its type being None.
C14_TagDispatch ==
    last.op = "decode"
    => /\ (\E k \in 1..Len(file.rngs) :
              file.rngs[k].sup_len > 0 /\ file.rngs[k].typ \notin SuppTags)
          => (last.status = "error" /\ heap = <<>>)
       /\ last.status = "ok"
          => \A i \in 1..Len(heap[1].rngs) :
               LET r == Retained(file)[i]
                   s == heap[1].rngs[i].supmetta
               IN  IF r.sup_len = 0
                   THEN s = [type |-> None]
                   ELSE /\ r.typ \in SuppTags
                        /\ s.type = r.typ
                        /\ DOMAIN s = SchemaFields(r.typ)

\* a complete file with the right signature whose second range carries the
\* unknown tag was refused with the KeyError of the class lookup
C14_Witness ==
    /\ last.op = "decode" /\ last.status = "error" /\ last.err = "KeyError"
    /\ last.hdr /\ last.calls = 2
    /\ file.range_cnt = 2
    /\ file.rngs[2].typ = 999
    /\ file.rngs[1].typ = 190


\* the ends of the reads that decoding the ranges of a file asks for: the
\* global header, then per range its header, the fields of its supplemental
\* record and its samples
ReadEnds(f) ==
    {GlobalHeaderSize}
    \cup { StartOf(f, k) + RangeHeaderSize : k \in 1..Len(f.rngs) }
    \cup { StartOf(f, k) + f.rngs[k].header_len + SuppSchemaSize(f.rngs[k].typ) :
             k \in { j \in 1..Len(f.rngs) :
                       f.rngs[j].sup_len > 0 /\ f.rngs[j].typ \in SuppTags } }
    \cup { StartOf(f, k) + RangeBytes(f.rngs[k]) :
             k \in { j \in 1..Len(f.rngs) : f.rngs[j].steps > 0 } }

\* C15: a decode that has to read a field or a sample past the end of the
\* buffer fails, whichever range the read belongs to; a decode ends either
\* with an error and no dataset, or with a dataset that holds every declared
\* range with samples, each with all its samples.
C15_AllOrNothing ==
    last.op = "decode"
    => /\ (\E e \in ReadEnds(file) : e > file.size)
          => (last.status = "error" /\ heap = <<>>)
       /\ last.status \in {"ok", "error"}
       /\ last.status = "error" => heap = <<>>
       /\ last.status = "ok"
          => /\ Len(heap) = 1
             /\ \A e \in ReadEnds(file) : e <= file.size
             /\ Len(heap[1].rngs) = Len(Retained(file))
             /\ \A i \in 1..Len(heap[1].rngs) :
                   /\ Len(heap[1].rngs[i].counts_data) = Retained(file)[i].steps
                   /\ heap[1].rngs[i].counts_data = Retained(file)[i].samples

\* a file of two ranges with samples, cut inside its second range after a
\* first range that is whole, was refused while its second range was read
C15_Witness ==
    /\ last.op = "decode" /\ last.status = "error" /\ last.err = "struct.error"
    /\ last.calls = 2
    /\ heap = <<>>
    /\ file.range_cnt = 2
    /\ file.rngs[1].steps > 0 /\ file.rngs[2].steps > 0
    /\ file.size < StartOf(file, 2) + RangeHeaderSize
    /\ file.size >= StartOf(file, 2)


\* C16: the bytes decoded for a field of variable length are the record's
\* 'length', decoded before the field, less the offset of the field in the
\* schema, wherever in the buffer the record starts.
C16_VarFieldLength ==
    (DecodedOk /\ SubSeq(file.sig, 1, Len(Magic)) = Magic)
    => \A i \in 1..Len(heap[1].rngs) :
          LET s == heap[1].rngs[i].supmetta IN
          (s.type # None /\ HasVarField(s.type))
          => /\ s.length = Retained(file)[i].length
             /\ s.var_bytes = s.length - VarOffset(s.type)


\* the cursor at which the k-th call of get_range is made
RECURSIVE Cursor(_, _)
Cursor(f, k) ==
    IF k = 1 THEN FirstRangePos ELSE get_range(f, Cursor(f, k - 1)).pos

\* C18: the first range is parsed at byte 712 and each later one at the
\* cursor the call before it returned, which is where the file holds it; a
\* call at pos reads the header at pos and steps samples of 4 bytes from
\* pos + header_len + sup_len on, all of sup_len skipped, and returns
\* pos + header_len + sup_len + 4 * steps, also for a range without samples;
\* the cursor never decreases.
C18_Cursor ==
    (last.op = "decode" /\ last.hdr)
    => \A k \in 1..last.calls :
          LET pos == Cursor(file, k)
              g   == get_range(file, pos)
              r   == file.rngs[k]
          IN  /\ pos = StartOf(file, k)
              /\ k = 1 => pos = 712
              /\ (k < last.calls \/ last.status = "ok") => g.ok
              /\ g.ok =>
                   /\ g.rng.metta = RangeMetta(r)
                   /\ Len(g.rng.counts_data) = r.steps
                   /\ g.rng.counts_data = r.samples
                   /\ g.pos = pos + r.header_len + r.sup_len + 4 * r.steps
                   /\ g.pos >= pos

\* two ranges were parsed, the first with a supplemental record longer than
\* its schema and without samples, the second with samples
C18_Witness ==
    /\ DecodedOk
    /\ last.calls = 2
    /\ file.rngs[1].steps = 0
    /\ file.rngs[1].sup_len > SuppSchemaSize(file.rngs[1].typ)
    /\ file.rngs[2].steps = 2
    /\ heap[1].rngs[1].counts_data = file.rngs[2].samples

-----------------------------------------------------------------------------
(* BrukerHeader objects.  hdrs.obj[h] is the dictionary the object h holds *)
(* as _attrs, hdrs.dict[d] maps the keys of dictionary d to the lists      *)
(* [value, label, type, position] it holds, and hdrs.cell[c] is such a     *)
(* list: two objects may hold one dictionary and two dictionaries one list.*)

\* the classes, each with the first fields of its _attrs and one of its own
Classes == {"BrukerHeader", "BrukerRangeHeader", "BrukerSupp200", "BrukerSupp140"}

Schema(cls) ==
    CASE cls = "BrukerHeader" ->
           [k \in {"range_cnt", "comment"} |->
              IF k = "range_cnt" THEN <<None, "Range Count", "<I", 12>>
                                 ELSE <<None, "Comment", "160", 386>>]
      [] cls = "BrukerRangeHeader" ->
           [k \in {"header_len", "steps"} |->
              IF k = "header_len" THEN <<None, "Header Len", "<I", 0>>
                                  ELSE <<None, "Steps", "<I", 4>>]
      [] cls = "BrukerSupp200" ->
           [k \in {"type", "length", "act_psi"} |->
              IF k = "type" THEN <<None, "Record type", "<I", 0>>
              ELSE IF k = "length" THEN <<None, "record length", "<I", 4>>
              ELSE <<None, "act psi", "<f", 68>>]
      [] cls = "BrukerSupp140" ->
           [k \in {"type", "length", "comment"} |->
              IF k = "type" THEN <<None, "Record type", "<I", 0>>
              ELSE IF k = "length" THEN <<None, "record length", "<I", 4>>
              ELSE <<None, "comment", "??", 8>>]

\* the keys of a schema in the order of their positions
KeysInOrder(sch) ==
    CHOOSE ks \in [1..Cardinality(DOMAIN sch) -> DOMAIN sch] :
        \A i, j \in DOMAIN ks : i < j => sch[ks[i]][4] < sch[ks[j]][4]

\* cls(): a new object with a dictionary and lists of its own
New(st, cls) ==
    LET sch == Schema(cls)
        ks  == KeysInOrder(sch)
        n   == Len(st.cell)
    IN  [ obj  |-> Append(st.obj, Len(st.dict) + 1),
          dict |-> Append(st.dict,
                          [k \in DOMAIN sch |->
                              n + (CHOOSE i \in DOMAIN ks : ks[i] = k)]),
          cell |-> st.cell \o [i \in DOMAIN ks |-> sch[ks[i]]] ]

\* the fields of object h and what they hold
Attrs(st, h) ==
    LET d == st.dict[st.obj[h]] IN [k \in DOMAIN d |-> st.cell[d[k]]]

\* __deepcopy__: _head = BrukerHeader(); _head._attrs = self._attrs
DeepCopy(st, h) == [st EXCEPT !.obj = Append(@, st.obj[h])]

\* __setitem__(key, item)
SetItem(st, h, key, item) ==
    LET d == st.obj[h] IN
    IF key \in DOMAIN st.dict[d]
    THEN [st EXCEPT !.cell[st.dict[d][key]][1] = item]
    ELSE [st EXCEPT !.cell = Append(@, <<item, key,
                                         Cardinality(DOMAIN st.dict[d])>>),
                    !.dict[d] = @ @@ (key :> Len(st.cell) + 1)]

\* the overlap check of __add__ left out
SameNone(da, db) == {}

\* same = [key for key in self._attrs if key in other._attrs]
Same(da, db) == DOMAIN da \cap DOMAIN db

\* what __add__ raises: the exception for an overlap is raised inside the
\* try and replaced by the one of the bare except
HeaderAddError(st, a, b) ==
    IF Same(st.dict[st.obj[a]], st.dict[st.obj[b]]) # {}
    THEN "Exception: Type mismatch, must be BrukerHeader"
    ELSE ""

\* _head = self.copy(); _head._attrs.update(other._attrs)
HeaderAdd(st, a, b) ==
    LET c == DeepCopy(st, a) IN
    [c EXCEPT !.dict[st.obj[a]] = st.dict[st.obj[b]] @@ @]

HCall(op, status, err, a, b, key, item, ret) ==
    [ op |-> op, status |-> status, err |-> err, a |-> a, b |-> b,
      key |-> key, item |-> item, ret |-> ret ]

\* The header algebra starts from two objects of any classes.
InitHdr ==
    /\ heap = <<>>
    /\ file = NoFile
    /\ \E ca \in Classes, cb \in Classes : hdrs = New(New(NoHdrs, ca), cb)
    /\ last = HCall("new", "ok", "", 1, 2, "", None, 2)

\* h2 = h.copy()
Copy ==
    /\ Len(hdrs.obj) < MaxHdrs
    /\ \E h \in 1..Len(hdrs.obj) :
         /\ hdrs' = DeepCopy(hdrs, h)
         /\ last' = HCall("copy", "ok", "", h, 0, "", None, Len(hdrs.obj) + 1)
    /\ UNCHANGED <<heap, file>>

\* the keys assigned to: a field of the supplemental schemas and a key no
\* schema has
SetKeys == {"type", "note"}

\* h[key] = 7
Assign ==
    /\ \E h \in 1..Len(hdrs.obj), key \in SetKeys :
         /\ hdrs' = SetItem(hdrs, h, key, 7)
         /\ last' = HCall("setitem", "ok", "", h, 0, key, 7, 0)
    /\ UNCHANGED <<heap, file>>

\* a + b
Merge ==
    /\ Len(hdrs.obj) < MaxHdrs
    /\ \E a \in 1..Len(hdrs.obj), b \in 1..Len(hdrs.obj) :
         LET err == HeaderAddError(hdrs, a, b) IN
         /\ hdrs' = IF err = "" THEN HeaderAdd(hdrs, a, b) ELSE hdrs
         /\ last' = HCall("header_add", IF err = "" THEN "ok" ELSE "error",
                          err, a, b, "", None,
                          IF err = "" THEN Len(hdrs.obj) + 1 ELSE 0)
    /\ UNCHANGED <<heap, file>>

NextHdr == Copy \/ Assign \/ Merge

SpecHdr == InitHdr /\ [][NextHdr]_vars

\* C17: a + b fails when a and b have a field name in common, and otherwise
\* gives a header that holds the fields of both, each with what it held.
C17_HeaderMerge ==
    [][ last'.op = "header_add" =>
          LET A == Attrs(hdrs, last'.a)
              B == Attrs(hdrs, last'.b)
          IN  IF DOMAIN A \cap DOMAIN B # {}
              THEN /\ last'.status = "error"
                   /\ last'.ret = 0
                   /\ Len(hdrs'.obj) = Len(hdrs.obj)
              ELSE /\ last'.status = "ok"
                   /\ last'.ret = Len(hdrs.obj) + 1
                   /\ LET R == Attrs(hdrs', last'.ret) IN
                      /\ DOMAIN R = DOMAIN A \cup DOMAIN B
                      /\ \A k \in DOMAIN A : R[k] = A[k]
                      /\ \A k \in DOMAIN B : R[k] = B[k]
      ]_vars

\* a range header and an area-detector record were merged
C17_Witness ==
    /\ last.op = "header_add" /\ last.status = "ok"
    /\ DOMAIN Attrs(hdrs, last.ret)
         = {"header_len", "steps", "type", "length", "act_psi"}


\* C19: h2 = h.copy() is a copy of its own: an assignment to a field of h2,
\* or of a new field to h2, right after the copy, changes no field of h,
\* and one to h changes no field of h2; and a successful a + b leaves a and
\* b with the fields and values they had.
C19_CopyIndependent ==
    [][ /\ (last.op = "copy" /\ last'.op = "setitem" /\ last'.a = last.ret)
           => Attrs(hdrs', last.a) = Attrs(hdrs, last.a)
        /\ (last.op = "copy" /\ last'.op = "setitem" /\ last'.a = last.a)
           => Attrs(hdrs', last.ret) = Attrs(hdrs, last.ret)
        /\ (last'.op = "header_add" /\ last'.status = "ok")
           => /\ Attrs(hdrs', last'.a) = Attrs(hdrs, last'.a)
              /\ Attrs(hdrs', last'.b) = Attrs(hdrs, last'.b)
      ]_vars


\* C20: the tilt axis of a decoded area map has one point per kept range,
\* evenly spaced from the least to the greatest of the tilt coordinates
\* t_i = 90 - psi_i + (90 + chi_start_i - (chi_start_i - chi_end_i) / 2),
\* and labels the rows: y[i] is t_i, the coordinate of the range whose
\* samples are row i of smap.
C20_TiltAxisLabelsRows ==
    (/\ DecodedOk
     /\ SubSeq(file.sig, 1, Len(Magic)) = Magic
     /\ heap[1].rngs[1].supmetta.type = 200)
    => LET d == heap[1]
           n == Len(d.rngs)
           t == [i \in 1..n |-> Tilt(d.rngs[i].supmetta)]
       IN  /\ Len(d.y) = n
           /\ Len(d.smap) = n
           /\ d.y = Linspace(RMin(Range(t)), RMax(Range(t)), n)
           /\ \A i \in 1..n :
                 /\ d.y[i] = t[i]
                 /\ \A c \in 1..Len(d.rngs[i].counts_data) :
                       d.smap[i][c] = StoreSample(d.rngs[i].counts_data[c])

====
